---- MODULE Spec2Model ----
(***************************************************************************)
(* A model of the pep_checker Odoo module: the PEP register (pep.person),  *)
(* its stored computed fields (phonetic name, PEP type, risk level) and    *)
(* the name screening of pep.screening.action_screen_name, the dates of    *)
(* the EDD reviews and the review sweep _run_edd_review_scheduler.         *)
(*                                                                         *)
(* Names are sequences of one-character tokens.  "Cyr" and "cyr" stand for *)
(* an upper and a lower case Cyrillic letter.  The string "False" is the   *)
(* ORM's False (an unset field); an unset integer or record id is 0.  A    *)
(* date is <<year, month, day>>, and <<0, 0, 0>> an unset date.            *)
(***************************************************************************)
EXTENDS Integers, Sequences, FiniteSets, TLC

VARIABLES
    peps,             \* the pep.person table: id -> row
    today,            \* date.today().year
    today_md,         \* the month and the day of fields.Date.today()
    company_country,  \* env.company.country_id (its code)
    jellyfish,        \* whether the jellyfish library was importable
    orm_result,       \* how the last create/write on pep.person ended
    screening,        \* the pep.screening record being screened
    genai_config,     \* the external classifier's configuration
    matched_peps,     \* action_screen_name: the recordset of the internal search
    calls,            \* action_screen_name: the lookups of the last run, in order
    outcome,          \* action_screen_name: how the last run ended
    now,              \* fields.Datetime.now(), as a tick counter
    activity_refs,    \* whether env.ref finds the manager group and the To Do type
    activities,       \* the mail.activity table: PEP id -> number of review activities
    peps_for_review,  \* _run_edd_review_scheduler: the recordset of the last search
    sweep_runs,       \* how many runs of _run_edd_review_scheduler have begun
    txn,              \* the open transaction of each concurrent sweep
    relationships,    \* the pep.relationship table: id -> row
    result_lines      \* the pep.ai.search.result.line rows of the open wizard

vars == <<peps, today, today_md, company_country, jellyfish, orm_result,
          screening, genai_config, matched_peps, calls, outcome, now,
          activity_refs, activities, peps_for_review, sweep_runs, txn,
          relationships, result_lines>>

pepVars == <<peps, today, today_md, company_country, jellyfish, orm_result>>
screenVars == <<screening, genai_config, matched_peps, calls, outcome, now>>
sweepVars == <<activity_refs, activities, peps_for_review, sweep_runs, txn>>
tableVars == <<relationships, result_lines>>

----------------------------------------------------------------------------
(* Bounds of the model *)

\* Size of the pep.person table in the screening specification.
NumPeps == 2
\* The first calendar year of a run, and how many years may pass.
FirstYear == 2026
YearSpan == 1
\* How many times action_screen_name may run.
MaxNow == 2

PepIds == 1..NumPeps
\* The record the lifecycle specification creates and edits.
LifecycleIds == {1}
LastYear == FirstYear + YearSpan

----------------------------------------------------------------------------
(* Names *)

NameKan == <<"K", "a", "n">>
NameCan == <<"C", "a", "n">>
NameAkan == <<"A", "k", "a", "n">>
NameAN == <<"A", "N">>
NameNak == <<"N", "a", "k">>
\* 'Cyrillic (Latin)', the format required of Mongolian PEPs.
NameMn == <<"Cyr", "cyr", " ", "(", "K", "a", "n", ")">>

NoKey == <<"False">>

lower(c) ==
    CASE c = "K" -> "k"
      [] c = "C" -> "c"
      [] c = "A" -> "a"
      [] c = "N" -> "n"
      [] c = "Cyr" -> "cyr"
      [] OTHER -> c

upper(c) ==
    CASE c = "k" -> "K"
      [] c = "c" -> "C"
      [] c = "a" -> "A"
      [] c = "n" -> "N"
      [] c = "s" -> "S"
      [] c = "x" -> "X"
      [] c = "cyr" -> "Cyr"
      [] OTHER -> c

lower_name(s) == [i \in DOMAIN s |-> lower(s[i])]
upper_name(s) == [i \in DOMAIN s |-> upper(s[i])]

\* The main loop of jellyfish.metaphone over the letters a, c, k, n, the
\* space and characters metaphone passes over (Cyrillic, parentheses).
\* i is the 1-based index of the character read; result is the code so far.
RECURSIVE metaphone_loop(_, _, _)
metaphone_loop(s, i, result) ==
    IF i > Len(s) THEN result
    ELSE
      LET c == s[i]
          next == IF i < Len(s) THEN s[i + 1] ELSE "*****"
          nextnext == IF i + 1 < Len(s) THEN s[i + 2] ELSE "*****"
      IN  IF c = next /\ c # "c"
            THEN metaphone_loop(s, i + 1, result)
          ELSE IF c \in {"a", "e", "i", "o", "u"}
            THEN metaphone_loop(s, i + 1,
                   IF i = 1 \/ s[i - 1] = " " THEN Append(result, c) ELSE result)
          ELSE IF c = "c"
            THEN IF (next = "i" /\ nextnext = "a") \/ next = "h"
                   THEN metaphone_loop(s, i + 2, Append(result, "x"))
                 ELSE IF next \in {"i", "e", "y"}
                   THEN metaphone_loop(s, i + 2, Append(result, "s"))
                 ELSE metaphone_loop(s, i + 1, Append(result, "k"))
          ELSE IF c = "k"
            THEN metaphone_loop(s, i + 1,
                   IF i = 1 \/ s[i - 1] # "c" THEN Append(result, "k") ELSE result)
          ELSE IF c = "n"
            THEN metaphone_loop(s, i + 1, Append(result, c))
          ELSE IF c = " "
            THEN metaphone_loop(s, i + 1,
                   IF Len(result) > 0 /\ result[Len(result)] # " "
                     THEN Append(result, " ") ELSE result)
          ELSE metaphone_loop(s, i + 1, result)

\* jellyfish.metaphone: lower-case, drop the first letter of an initial
\* "kn", run the loop, upper-case the code.
metaphone(name) ==
    LET s == lower_name(name)
        t == IF Len(s) >= 2 /\ s[1] = "k" /\ s[2] = "n" THEN Tail(s) ELSE s
    IN  upper_name(metaphone_loop(t, 1, <<>>))

\* The ORM's ('name', 'ilike', q): q is a case-insensitive substring of name.
ilike(name, q) ==
    \E i \in 1..(Len(name) - Len(q) + 1) :
        SubSeq(lower_name(name), i, i + Len(q) - 1) = lower_name(q)

\* mongolian_name_pattern: ^[\u0400-\u04FF\s\.\-]+\s\([\w\s\.\-]+\)$
CyrillicClass == {"Cyr", "cyr", " ", ".", "-"}
WordClass == {"K", "k", "C", "c", "A", "a", "N", "n", "Cyr", "cyr", " ", ".", "-"}
mongolian_name_pattern(s) ==
    \E p \in 3..(Len(s) - 2) :
        /\ s[p] = "("
        /\ s[p - 1] = " "
        /\ \A j \in 1..(p - 2) : s[j] \in CyrillicClass
        /\ s[Len(s)] = ")"
        /\ \A j \in (p + 1)..(Len(s) - 1) : s[j] \in WordClass

----------------------------------------------------------------------------
(* Dates *)

\* An unset Date field.
NoDate == <<0, 0, 0>>

\* a <= b on dates.
date_le(a, b) ==
    \/ a[1] < b[1]
    \/ a[1] = b[1] /\ a[2] < b[2]
    \/ a[1] = b[1] /\ a[2] = b[2] /\ a[3] <= b[3]

\* calendar.isleap.
isleap(year) == year % 4 = 0 /\ (year % 100 # 0 \/ year % 400 = 0)

\* calendar.monthrange(year, month)[1]: the number of days of the month.
monthrange(year, month) ==
    IF month = 2 THEN (IF isleap(year) THEN 29 ELSE 28)
    ELSE IF month \in {4, 6, 9, 11} THEN 30
    ELSE 31

\* The mutant of add_months: the day of the month is kept as it is.
add_months_unclamped(dt, months_to_add) ==
    LET years == months_to_add \div 12
        months == months_to_add % 12
        month0 == dt[2] + months
        year == IF month0 > 12 THEN dt[1] + years + 1 ELSE dt[1] + years
        month == IF month0 > 12 THEN month0 - 12 ELSE month0
    IN  <<year, month, dt[3]>>

\* dt + relativedelta(months=months_to_add), for 1 to 12 months: twelve
\* months are carried into a year, a month beyond December is carried into
\* the next year, and the day is cut to the length of the month reached.
add_months(dt, months_to_add) ==
    LET years == months_to_add \div 12
        months == months_to_add % 12
        month0 == dt[2] + months
        year == IF month0 > 12 THEN dt[1] + years + 1 ELSE dt[1] + years
        month == IF month0 > 12 THEN month0 - 12 ELSE month0
        day == IF dt[3] < monthrange(year, month)
                 THEN dt[3] ELSE monthrange(year, month)
    IN  <<year, month, day>>

\* Whether dateutil.relativedelta was importable.  dateutil is a dependency
\* of the ORM itself and of the module's manifest, so the import succeeds.
relativedelta == TRUE

----------------------------------------------------------------------------
(* pep.person: fields and computed fields *)

\* Years out of office after which a former PEP's risk is lowered.
RiskCooldownYears == 5

\* A slot of the table that holds no row.
NoPep ==
    [exists |-> FALSE, name |-> <<>>, name_phonetic |-> NoKey,
     date_of_birth |-> "False", nationality |-> "False",
     position |-> "False", organization_type |-> "False",
     pep_type |-> "False", status |-> "False", end_date |-> 0,
     risk_level |-> "False", edd_status |-> "False",
     edd_last_review |-> NoDate, edd_next_review |-> NoDate,
     monitoring_frequency |-> "False", active |-> FALSE]

\* _compute_phonetic_name, for one record's name.
_compute_phonetic_name(name, jf) ==
    IF ~jf THEN NoKey
    ELSE IF name # <<>> THEN metaphone(name) ELSE NoKey

\* The mutant of _compute_pep_type: the nationality is looked at first.
_compute_pep_type_nationality_first(rec, cc) ==
    IF rec.nationality # "False" /\ cc # "False" /\ rec.nationality = cc
      THEN "domestic"
    ELSE IF rec.organization_type = "international_org" THEN "international"
    ELSE "foreign"

\* _compute_pep_type, for one record; cc is env.company.country_id.
_compute_pep_type(rec, cc) ==
    IF rec.organization_type = "international_org" THEN "international"
    ELSE IF rec.nationality # "False" /\ cc # "False" /\ rec.nationality = cc
      THEN "domestic"
    ELSE "foreign"

\* The mutant of _compute_risk_level: the 5-year test taken as >=.
_compute_risk_level_ge(rec, year) ==
    IF rec.status = "deceased" THEN "low"
    ELSE IF rec.status = "former"
      THEN IF rec.end_date # 0 /\ (year - rec.end_date) >= RiskCooldownYears
             THEN "low" ELSE "medium"
    ELSE IF rec.pep_type = "domestic" THEN "high"
    ELSE IF rec.pep_type = "foreign" THEN "high"
    ELSE IF rec.pep_type = "international"
      THEN IF rec.position \in {"intl_director", "intl_board"}
             THEN "high" ELSE "medium"
    ELSE rec.risk_level

\* The mutant of _compute_risk_level: the status rules come after the
\* pep_type rules.
_compute_risk_level_type_first(rec, year) ==
    IF rec.pep_type = "domestic" THEN "high"
    ELSE IF rec.pep_type = "foreign" THEN "high"
    ELSE IF rec.status = "deceased" THEN "low"
    ELSE IF rec.status = "former"
      THEN IF rec.end_date # 0 /\ (year - rec.end_date) > RiskCooldownYears
             THEN "low" ELSE "medium"
    ELSE IF rec.pep_type = "international"
      THEN IF rec.position \in {"intl_director", "intl_board"}
             THEN "high" ELSE "medium"
    ELSE rec.risk_level

\* The mutant of _compute_risk_level: every international PEP is medium.
_compute_risk_level_intl_medium(rec, year) ==
    IF rec.status = "deceased" THEN "low"
    ELSE IF rec.status = "former"
      THEN IF rec.end_date # 0 /\ (year - rec.end_date) > RiskCooldownYears
             THEN "low" ELSE "medium"
    ELSE IF rec.pep_type = "domestic" THEN "high"
    ELSE IF rec.pep_type = "foreign" THEN "high"
    ELSE "medium"

\* _compute_risk_level, for one record; year is date.today().year.
_compute_risk_level(rec, year) ==
    IF rec.status = "deceased" THEN "low"
    ELSE IF rec.status = "former"
      THEN IF rec.end_date # 0 /\ (year - rec.end_date) > RiskCooldownYears
             THEN "low" ELSE "medium"
    ELSE IF rec.pep_type = "domestic" THEN "high"
    ELSE IF rec.pep_type = "foreign" THEN "high"
    ELSE IF rec.pep_type = "international"
      THEN IF rec.position \in {"intl_director", "intl_board"}
             THEN "high" ELSE "medium"
    ELSE rec.risk_level

\* The mutant of _compute_next_review: a record with no last review is
\* given no next review.
_compute_next_review_unset(rec, day, rd) ==
    IF rec.edd_last_review = NoDate THEN NoDate
    ELSE IF ~rd THEN NoDate
    ELSE LET months_to_add ==
                 CASE rec.monitoring_frequency = "monthly" -> 1
                   [] rec.monitoring_frequency = "quarterly" -> 3
                   [] rec.monitoring_frequency = "semi_annual" -> 6
                   [] rec.monitoring_frequency = "annual" -> 12
                   [] OTHER -> 0
         IN  IF months_to_add > 0
               THEN add_months(rec.edd_last_review, months_to_add)
               ELSE NoDate

\* _compute_next_review, for one record; day is fields.Date.today() and rd
\* tells whether relativedelta is there.
_compute_next_review(rec, day, rd) ==
    IF rec.edd_last_review = NoDate THEN day
    ELSE IF ~rd THEN NoDate
    ELSE LET months_to_add ==
                 CASE rec.monitoring_frequency = "monthly" -> 1
                   [] rec.monitoring_frequency = "quarterly" -> 3
                   [] rec.monitoring_frequency = "semi_annual" -> 6
                   [] rec.monitoring_frequency = "annual" -> 12
                   [] OTHER -> 0
         IN  IF months_to_add > 0
               THEN add_months(rec.edd_last_review, months_to_add)
               ELSE NoDate

\* The mutant of _check_pep_type_consistency: every record passes.
_check_pep_type_consistency_off(rec) == TRUE

\* _check_pep_type_consistency: TRUE when the record passes.
_check_pep_type_consistency(rec) ==
    ~(rec.pep_type = "international" /\ rec.organization_type # "international_org")

\* _check_mongolian_name_format: TRUE when the record passes.
_check_mongolian_name_format(rec) ==
    rec.nationality = "MN" => (rec.name # <<>> /\ mongolian_name_pattern(rec.name))

\* name_dob_uniq, UNIQUE(name, date_of_birth): TRUE when row rec may sit in
\* slot id of table t.  SQL holds two NULL dates of birth to be distinct.
name_dob_uniq(t, id, rec) ==
    \A other \in DOMAIN t :
        (other # id /\ t[other].exists) =>
            ~(t[other].name = rec.name
              /\ rec.date_of_birth # "False"
              /\ t[other].date_of_birth = rec.date_of_birth)

----------------------------------------------------------------------------
(* pep.person: create and write *)

\* The values of a create call: the stored fields the model follows.
\* organization and position are required and always given.
CreateVals(names, dobs, nationalities, positions, org_types, statuses, end_dates) ==
    [name : names, date_of_birth : dobs, nationality : nationalities,
     position : positions, organization_type : org_types,
     status : statuses, end_date : end_dates]

\* The row a create call inserts: the given values, the defaults of active,
\* edd_status and monitoring_frequency, and the stored computed fields; day
\* is fields.Date.today().
new_record(vals, day, cc, jf) ==
    LET r0 == [NoPep EXCEPT !.exists = TRUE, !.active = TRUE,
                            !.edd_status = "pending",
                            !.monitoring_frequency = "quarterly",
                            !.name = vals.name,
                            !.date_of_birth = vals.date_of_birth,
                            !.nationality = vals.nationality,
                            !.position = vals.position,
                            !.organization_type = vals.organization_type,
                            !.status = vals.status,
                            !.end_date = vals.end_date]
        r1 == [r0 EXCEPT !.name_phonetic = _compute_phonetic_name(r0.name, jf)]
        r2 == [r1 EXCEPT !.pep_type = _compute_pep_type(r1, cc)]
        r3 == [r2 EXCEPT !.risk_level = _compute_risk_level(r2, day[1])]
    IN  [r3 EXCEPT !.edd_next_review = _compute_next_review(r3, day, relativedelta)]

\* The fields _compute_risk_level depends on.
risk_depends(rec) == <<rec.pep_type, rec.position, rec.status, rec.end_date>>

\* The fields _compute_next_review depends on.
next_review_depends(rec) == <<rec.edd_last_review, rec.monitoring_frequency>>

\* The mutant of written_record: end_date is missing from the depends of
\* _compute_risk_level.
written_record_no_end_date(old, fname, value, day, cc, jf) ==
    LET r0 == [old EXCEPT ![fname] = value]
        r1 == IF r0.name # old.name
                THEN [r0 EXCEPT !.name_phonetic = _compute_phonetic_name(r0.name, jf)]
                ELSE r0
        r2 == IF r1.nationality # old.nationality
                 \/ r1.organization_type # old.organization_type
                THEN [r1 EXCEPT !.pep_type = _compute_pep_type(r1, cc)]
                ELSE r1
        r3 == IF <<r2.pep_type, r2.position, r2.status>>
                   # <<old.pep_type, old.position, old.status>>
                THEN [r2 EXCEPT !.risk_level = _compute_risk_level(r2, day[1])]
                ELSE r2
    IN  IF next_review_depends(r3) # next_review_depends(old)
          THEN [r3 EXCEPT !.edd_next_review =
                              _compute_next_review(r3, day, relativedelta)]
          ELSE r3

\* The row a write of one field leaves: the field, then each stored computed
\* field whose @api.depends fields changed, in dependency order; day is
\* fields.Date.today().
written_record(old, fname, value, day, cc, jf) ==
    LET r0 == [old EXCEPT ![fname] = value]
        r1 == IF r0.name # old.name
                THEN [r0 EXCEPT !.name_phonetic = _compute_phonetic_name(r0.name, jf)]
                ELSE r0
        r2 == IF r1.nationality # old.nationality
                 \/ r1.organization_type # old.organization_type
                THEN [r1 EXCEPT !.pep_type = _compute_pep_type(r1, cc)]
                ELSE r1
        r3 == IF risk_depends(r2) # risk_depends(old)
                THEN [r2 EXCEPT !.risk_level = _compute_risk_level(r2, day[1])]
                ELSE r2
    IN  IF next_review_depends(r3) # next_review_depends(old)
          THEN [r3 EXCEPT !.edd_next_review =
                              _compute_next_review(r3, day, relativedelta)]
          ELSE r3

\* How a create or write that leaves row rec in slot id ends: the SQL
\* constraint and the two @api.constrains checks.
orm_verdict(t, id, rec) ==
    IF ~name_dob_uniq(t, id, rec) THEN "IntegrityError"
    ELSE IF ~_check_pep_type_consistency(rec) \/ ~_check_mongolian_name_format(rec)
      THEN "ValidationError"
    ELSE "ok"

\* fields.Date.today().
Date_today == <<today, today_md[1], today_md[2]>>

\* pep.person.create(vals): the row is kept when no constraint fails, and
\* the transaction is rolled back otherwise.  Ids are given out in order.
create(id, vals) ==
    /\ ~peps[id].exists
    /\ \A lesser \in 1..(id - 1) : peps[lesser].exists
    /\ LET rec == new_record(vals, Date_today, company_country, jellyfish)
           verdict == orm_verdict(peps, id, rec)
       IN  /\ orm_result' = verdict
           /\ peps' = IF verdict = "ok" THEN [peps EXCEPT ![id] = rec] ELSE peps
    /\ UNCHANGED <<today, today_md, company_country, jellyfish>>
    /\ UNCHANGED screenVars
    /\ UNCHANGED sweepVars
    /\ UNCHANGED tableVars

\* record.write({fname: value}) on an existing row.
write(id, fname, value) ==
    /\ peps[id].exists
    /\ LET rec == written_record(peps[id], fname, value, Date_today,
                                 company_country, jellyfish)
           verdict == orm_verdict(peps, id, rec)
       IN  /\ orm_result' = verdict
           /\ peps' = IF verdict = "ok" THEN [peps EXCEPT ![id] = rec] ELSE peps
    /\ UNCHANGED <<today, today_md, company_country, jellyfish>>
    /\ UNCHANGED screenVars
    /\ UNCHANGED sweepVars
    /\ UNCHANGED tableVars

\* The calendar year changes; no stored field depends on it.
AdvanceYear ==
    /\ today < LastYear
    /\ today' = today + 1
    /\ UNCHANGED <<peps, today_md, company_country, jellyfish, orm_result>>
    /\ UNCHANGED screenVars
    /\ UNCHANGED sweepVars
    /\ UNCHANGED tableVars

----------------------------------------------------------------------------
(* The lifecycle of a PEP record: created, then edited field by field *)

Nationalities == {"False", "MN", "US"}
Positions == {"head_state", "intl_director", "intl_board", "intl_senior"}
OrgTypes == {"False", "government", "international_org"}
Statuses == {"False", "active", "former", "deceased"}
EndDates == {0, FirstYear - 6, FirstYear - 5, FirstYear - 2}

LifecycleVals ==
    CreateVals({NameKan, NameMn}, {"False"}, Nationalities, Positions,
               OrgTypes, Statuses, EndDates)

LifecycleEdits ==
    ({"name"} \X {NameKan, NameMn})
    \cup ({"nationality"} \X Nationalities)
    \cup ({"position"} \X Positions)
    \cup ({"organization_type"} \X OrgTypes)
    \cup ({"status"} \X Statuses)
    \cup ({"end_date"} \X EndDates)

\* A screening record as created: no result yet.
NewScreening(name) ==
    [name |-> name, result |-> "False", matched_pep_id |-> 0,
     confidence_score |-> 0,
     notes |-> [kind |-> "False", names |-> <<>>],
     evidence_refs |-> "False", screening_method |-> "manual",
     screening_date |-> 0]

ScreenIdle ==
    /\ screening = NewScreening(NameKan)
    /\ genai_config = "configured"
    /\ matched_peps = {}
    /\ calls = <<>>
    /\ outcome = "none"
    /\ now = 0

\* The two invocations of the review sweep that may run at once.
Sweepers == {1, 2}

\* A sweep that has not begun: its transaction holds nothing.
IdleTxn ==
    [pc |-> "idle", todo |-> {}, flagged |-> {},
     snapshot |-> [id \in PepIds |-> NoPep]]

SweepIdle ==
    /\ activity_refs = TRUE
    /\ activities = [id \in PepIds |-> 0]
    /\ peps_for_review = {}
    /\ sweep_runs = 0
    /\ txn = [p \in Sweepers |-> IdleTxn]

\* The ids of pep.relationship rows and of result lines.
RelationIds == {1, 2}
LineIds == {1, 2}

\* A slot of pep.relationship that holds no row.
NoRelation ==
    [exists |-> FALSE, pep_id |-> 0, relationship_type |-> "False",
     family_relation |-> "False", association_type |-> "False"]

\* No relationship is stored and the wizard shows no result line.
TablesIdle ==
    /\ relationships = [id \in RelationIds |-> NoRelation]
    /\ result_lines = [id \in LineIds |-> [name |-> <<>>, is_created |-> FALSE]]

Init ==
    /\ peps = [id \in PepIds |-> NoPep]
    /\ today = FirstYear
    /\ today_md = <<1, 1>>
    /\ company_country \in {"False", "MN"}
    /\ jellyfish \in BOOLEAN
    /\ orm_result = "ok"
    /\ ScreenIdle
    /\ SweepIdle
    /\ TablesIdle

LifecycleCreate == \E id \in LifecycleIds, vals \in LifecycleVals : create(id, vals)

LifecycleWrite == \E id \in LifecycleIds, e \in LifecycleEdits : write(id, e[1], e[2])

Next ==
    \/ LifecycleCreate
    \/ LifecycleWrite
    \/ AdvanceYear

Spec == Init /\ [][Next]_vars

----------------------------------------------------------------------------
(* pep.screening: action_screen_name *)

\* What the external classifier may answer to generate_content:
\*   is_pep_true   a JSON object with is_pep true, a summary and source_urls
\*   is_pep_false  a JSON object with is_pep false and a summary
\*   no_is_pep     a JSON object with no is_pep and no summary key
\*   not_object    JSON text that is no object (get is no attribute of it)
\*   not_json      text that json.loads rejects
\*   api_error     generate_content raises
ExternalResponses ==
    {"is_pep_true", "is_pep_false", "no_is_pep", "not_object", "not_json", "api_error"}

\* The mutant of search_domain: the two leaves joined by '&'.
search_domain_and(name, jf) ==
    IF jf /\ name # <<>>
      THEN [op |-> "&", name_phonetic |-> metaphone(name), ilike |-> name]
      ELSE [op |-> "leaf", name_phonetic |-> NoKey, ilike |-> name]

\* The search domain of the internal lookup: the ilike leaf alone, or the
\* phonetic leaf '|' the ilike leaf when jellyfish is there.
search_domain(name, jf) ==
    IF jf /\ name # <<>>
      THEN [op |-> "|", name_phonetic |-> metaphone(name), ilike |-> name]
      ELSE [op |-> "leaf", name_phonetic |-> NoKey, ilike |-> name]

\* The mutant of search: archived rows are searched too.
search_with_archived(t, domain) ==
    {id \in DOMAIN t :
        /\ t[id].exists
        /\ LET by_key == t[id].name_phonetic = domain.name_phonetic
               by_name == ilike(t[id].name, domain.ilike)
           IN  CASE domain.op = "|" -> by_key \/ by_name
                 [] domain.op = "&" -> by_key /\ by_name
                 [] OTHER -> by_name}

\* env['pep.person'].search(domain): the rows the domain selects.  The model
\* has an active field, so the ORM leaves archived rows out.
search(t, domain) ==
    {id \in DOMAIN t :
        /\ t[id].exists
        /\ t[id].active
        /\ LET by_key == t[id].name_phonetic = domain.name_phonetic
               by_name == ilike(t[id].name, domain.ilike)
           IN  CASE domain.op = "|" -> by_key \/ by_name
                 [] domain.op = "&" -> by_key /\ by_name
                 [] OTHER -> by_name}

\* matched_peps.mapped('name'): the names of the rows, in id order.
RECURSIVE mapped_name(_, _)
mapped_name(t, ids) ==
    IF ids = {} THEN <<>>
    ELSE LET first == CHOOSE id \in ids : \A other \in ids : id <= other
         IN  <<t[first].name>> \o mapped_name(t, ids \ {first})

\* The mutant of internal_result: a single match is given the score 1.0.
internal_result_scored(scr, t, found, stamp) ==
    IF Cardinality(found) = 1
      THEN LET pep == CHOOSE id \in found : TRUE
           IN  [scr EXCEPT !.result = "match",
                           !.matched_pep_id = pep,
                           !.confidence_score = 1,
                           !.notes = [kind |-> "internal_match",
                                      names |-> <<t[pep].name>>],
                           !.screening_method = "database",
                           !.screening_date = stamp]
      ELSE [scr EXCEPT !.result = "possible",
                       !.notes = [kind |-> "internal_multiple",
                                  names |-> mapped_name(t, found)],
                       !.screening_method = "database",
                       !.screening_date = stamp]

\* The mutant of internal_result: any hit is written as a match with the
\* first row.
internal_result_first(scr, t, found, stamp) ==
    LET pep == CHOOSE id \in found : \A other \in found : id <= other
    IN  [scr EXCEPT !.result = "match",
                    !.matched_pep_id = pep,
                    !.notes = [kind |-> "internal_match",
                               names |-> <<t[pep].name>>],
                    !.screening_method = "database",
                    !.screening_date = stamp]

\* The screening record after an internal search that found rows: the two
\* writes of the "if matched_peps" branch and the new screening date.
internal_result(scr, t, found, stamp) ==
    IF Cardinality(found) = 1
      THEN LET pep == CHOOSE id \in found : TRUE
           IN  [scr EXCEPT !.result = "match",
                           !.matched_pep_id = pep,
                           !.notes = [kind |-> "internal_match",
                                      names |-> <<t[pep].name>>],
                           !.screening_method = "database",
                           !.screening_date = stamp]
      ELSE [scr EXCEPT !.result = "possible",
                       !.notes = [kind |-> "internal_multiple",
                                  names |-> mapped_name(t, found)],
                       !.screening_method = "database",
                       !.screening_date = stamp]

\* The mutant of external_raises: text that json.loads rejects is taken for
\* an answer.
external_raises_transport_only(response) == response \in {"api_error", "not_object"}

\* Whether the try block around generate_content raises UserError.
external_raises(response) == response \in {"api_error", "not_json", "not_object"}

\* The mutant of external_result: a positive verdict is written as a match.
external_result_match(scr, response, stamp) ==
    IF response = "is_pep_true"
      THEN [scr EXCEPT !.result = "match",
                       !.notes = [kind |-> "ai_summary", names |-> <<>>],
                       !.evidence_refs = "source_urls",
                       !.screening_method = "ai_screening",
                       !.screening_date = stamp]
      ELSE [scr EXCEPT !.result = "no_match",
                       !.notes = [kind |-> IF response = "no_is_pep"
                                             THEN "No match found."
                                             ELSE "ai_summary",
                                  names |-> <<>>],
                       !.screening_method = "ai_screening",
                       !.screening_date = stamp]

\* The screening record after the external classifier answered with a JSON
\* object: the two writes of the try block and the new screening date.
external_result(scr, response, stamp) ==
    IF response = "is_pep_true"
      THEN [scr EXCEPT !.result = "possible",
                       !.notes = [kind |-> "ai_summary", names |-> <<>>],
                       !.evidence_refs = "source_urls",
                       !.screening_method = "ai_screening",
                       !.screening_date = stamp]
      ELSE [scr EXCEPT !.result = "no_match",
                       !.notes = [kind |-> IF response = "no_is_pep"
                                             THEN "No match found."
                                             ELSE "ai_summary",
                                  names |-> <<>>],
                       !.screening_method = "ai_screening",
                       !.screening_date = stamp]

\* Whether a run on record scr comes to call the external classifier.
asks_external(scr, t, jf, config) ==
    search(t, search_domain(scr.name, jf)) = {} /\ config = "configured"

\* The mutant of run_screening: the external classifier is asked whenever
\* it is configured, and the internal search only after it said no.
run_screening_external_first(scr, t, jf, config, response, stamp) ==
    LET found == search(t, search_domain(scr.name, jf))
    IN  IF config = "configured" /\ response = "is_pep_true"
          THEN [screening |-> external_result(scr, response, stamp),
                matched_peps |-> {},
                calls |-> <<"external_call">>, outcome |-> "returned"]
        ELSE IF found # {}
          THEN [screening |-> internal_result(scr, t, found, stamp),
                matched_peps |-> found,
                calls |-> <<"internal_search">>, outcome |-> "returned"]
        ELSE [screening |-> scr, matched_peps |-> found,
              calls |-> <<"internal_search">>, outcome |-> "UserError"]

\* The mutant of run_screening: a failed external call is made once more.
run_screening_retry(scr, t, jf, config, response, stamp) ==
    LET found == search(t, search_domain(scr.name, jf))
    IN  IF found # {}
          THEN [screening |-> internal_result(scr, t, found, stamp),
                matched_peps |-> found,
                calls |-> <<"internal_search">>, outcome |-> "returned"]
        ELSE IF config # "configured"
          THEN [screening |-> scr, matched_peps |-> found,
                calls |-> <<"internal_search">>, outcome |-> "UserError"]
        ELSE IF external_raises(response)
          THEN [screening |-> scr, matched_peps |-> found,
                calls |-> <<"internal_search", "external_call", "external_call">>,
                outcome |-> "UserError"]
        ELSE [screening |-> external_result(scr, response, stamp),
              matched_peps |-> found,
              calls |-> <<"internal_search", "external_call">>,
              outcome |-> "returned"]

\* One run of action_screen_name on record scr, to its return or its
\* UserError: the record it leaves, the recordset of the internal search,
\* the lookups made in order, and how the run ended.
run_screening(scr, t, jf, config, response, stamp) ==
    LET found == search(t, search_domain(scr.name, jf))
    IN  IF found # {}
          THEN [screening |-> internal_result(scr, t, found, stamp),
                matched_peps |-> found,
                calls |-> <<"internal_search">>, outcome |-> "returned"]
        ELSE IF config # "configured"
          THEN [screening |-> scr, matched_peps |-> found,
                calls |-> <<"internal_search">>, outcome |-> "UserError"]
        ELSE IF external_raises(response)
          THEN [screening |-> scr, matched_peps |-> found,
                calls |-> <<"internal_search", "external_call">>,
                outcome |-> "UserError"]
        ELSE [screening |-> external_result(scr, response, stamp),
              matched_peps |-> found,
              calls |-> <<"internal_search", "external_call">>,
              outcome |-> "returned"]

\* The button action_screen_name; response is what the external classifier
\* answers, "not_asked" in a run that does not call it.  A UserError rolls
\* the transaction back.
action_screen_name(response) ==
    /\ now < MaxNow
    /\ (response = "not_asked")
          = ~asks_external(screening, peps, jellyfish, genai_config)
    /\ LET run == run_screening(screening, peps, jellyfish, genai_config,
                                response, now + 1)
       IN  /\ screening' = run.screening
           /\ matched_peps' = run.matched_peps
           /\ calls' = run.calls
           /\ outcome' = run.outcome
    /\ now' = now + 1
    /\ UNCHANGED <<genai_config>>
    /\ UNCHANGED pepVars
    /\ UNCHANGED sweepVars
    /\ UNCHANGED tableVars

\* The user edits the name to screen on the form.
edit_screening_name(name) ==
    /\ name # screening.name
    /\ screening' = [screening EXCEPT !.name = name]
    /\ UNCHANGED <<genai_config, matched_peps, calls, outcome, now>>
    /\ UNCHANGED pepVars
    /\ UNCHANGED sweepVars
    /\ UNCHANGED tableVars

----------------------------------------------------------------------------
(* Screening against a register that is filled and archived meanwhile *)

StoreNames == {NameKan, NameCan, NameAkan, NameNak}
QueryNames == {NameKan, NameAN, NameNak}

ScreenVals ==
    CreateVals(StoreNames, {"False"}, {"False"}, {"head_state"},
               {"government"}, {"active"}, {0})

ScreenInit ==
    /\ peps = [id \in PepIds |-> NoPep]
    /\ today = FirstYear
    /\ today_md = <<1, 1>>
    /\ company_country = "MN"
    /\ jellyfish \in BOOLEAN
    /\ orm_result = "ok"
    /\ screening \in {NewScreening(name) : name \in QueryNames}
    /\ genai_config \in {"configured", "no_library", "no_api_key"}
    /\ matched_peps = {}
    /\ calls = <<>>
    /\ outcome = "none"
    /\ now = 0
    /\ SweepIdle
    /\ TablesIdle

ScreenCreate == \E id \in PepIds, vals \in ScreenVals : create(id, vals)

\* The archive and unarchive actions of the form: a write of active.
ScreenArchive == \E id \in PepIds, value \in BOOLEAN : write(id, "active", value)

ScreenRun ==
    \E response \in ExternalResponses \cup {"not_asked"} : action_screen_name(response)

ScreenEdit == \E name \in QueryNames : edit_screening_name(name)

ScreenNext ==
    \/ ScreenCreate
    \/ ScreenArchive
    \/ ScreenRun
    \/ ScreenEdit

SpecScreen == ScreenInit /\ [][ScreenNext]_vars

----------------------------------------------------------------------------
(* Screening: claims C1 to C5 *)

Rows == {id \in PepIds : peps[id].exists}

\* The step is one run of action_screen_name.
ScreeningRuns == now' # now

\* C1: in every run the internal search is the first lookup; the external
\* classifier is called only after an internal search that returned no
\* record; a run whose internal search returned records ends with a result
\* and without an external call.
C1_InternalFirst ==
    /\ outcome # "none" => (calls # <<>> /\ calls[1] = "internal_search")
    /\ \A i \in DOMAIN calls :
          calls[i] = "external_call" => (i > 1 /\ matched_peps = {})
    /\ matched_peps # {} =>
          /\ calls = <<"internal_search">>
          /\ outcome = "returned"
          /\ screening.result \in {"match", "possible"}
          /\ screening.screening_method = "database"

\* A run that went on to the external classifier after an empty search.
C1_Witness ==
    /\ calls = <<"internal_search", "external_call">>
    /\ matched_peps = {}
    /\ outcome = "returned"
    /\ \E id \in PepIds : peps[id].exists

NamesOf(ids) == {peps[id].name : id \in ids}
Range(seq) == {seq[i] : i \in DOMAIN seq}

\* C3 as stated: a run whose internal search returned more than one record
\* leaves the result possible with every returned record listed, no matched
\* PEP, and no score.
C3_MultipleIsPossible ==
    [][(ScreeningRuns /\ Cardinality(matched_peps') > 1) =>
          /\ screening'.result = "possible"
          /\ Range(screening'.notes.names) = NamesOf(matched_peps')
          /\ screening'.matched_pep_id = 0
          /\ screening'.confidence_score = 0]_vars

\* The candidate set C4 describes for query name q: the stored records
\* whose phonetic key is the key of q or whose name contains q.
Candidates(q, rows) ==
    {id \in rows :
        \/ peps[id].name_phonetic = metaphone(q)
        \/ ilike(peps[id].name, q)}

\* C4 as stated: the internal search returns exactly the stored records
\* whose phonetic key equals the key of the query name or whose full name
\* contains the query name, case-insensitively.
C4_CandidatesOfAllStored ==
    [][ScreeningRuns => matched_peps' = Candidates(screening.name, Rows)]_vars

ActiveRows == {id \in Rows : peps[id].active}

\* C4 as amended: the internal search returns exactly the stored records
\* that are not archived and whose phonetic key equals the key of the query
\* name or whose full name contains the query name, case-insensitively.
C4_CandidatesOfActive ==
    [][ScreeningRuns => matched_peps' = Candidates(screening.name, ActiveRows)]_vars

\* A search that returned one record by its phonetic key alone and another
\* by its name alone.
C4_Witness ==
    /\ outcome = "returned"
    /\ \E a, b \in matched_peps :
          /\ ~ilike(peps[a].name, screening.name)
          /\ peps[a].name_phonetic = metaphone(screening.name)
          /\ ilike(peps[b].name, screening.name)
          /\ peps[b].name_phonetic # metaphone(screening.name)

----------------------------------------------------------------------------
(* Risk classification and PEP type: claims C6 to C10 *)

\* C6: a PEP record with status deceased has risk level low, whatever its
\* PEP type, position and end date.
C6_DeceasedIsLow ==
    \A id \in Rows : peps[id].status = "deceased" => peps[id].risk_level = "low"

\* A deceased record that the PEP type rules alone would make high.
C6_Witness ==
    \E id \in Rows :
        /\ peps[id].status = "deceased"
        /\ peps[id].pep_type = "domestic"
        /\ peps[id].end_date = 0
        /\ peps[id].risk_level = "low"

\* The step computes the risk level of row id: the row is created, or one
\* of the fields the risk level depends on changes.
RiskComputed(id) ==
    /\ peps'[id].exists
    /\ ~peps[id].exists \/ risk_depends(peps'[id]) # risk_depends(peps[id])

\* C7: whenever the risk level of a former PEP is computed it is low if the
\* end year lies more than 5 years before the current year and medium
\* otherwise (an unset end year included), whatever the PEP type and
\* position; and a former record is never high.
C7_FormerRisk ==
    [][\A id \in PepIds :
          (peps'[id].exists /\ peps'[id].status = "former") =>
              /\ peps'[id].risk_level # "high"
              /\ RiskComputed(id) =>
                    peps'[id].risk_level =
                        IF peps'[id].end_date # 0 /\ today' - peps'[id].end_date > 5
                          THEN "low" ELSE "medium"]_vars

\* A former domestic PEP out of office for 6 years, at low risk.
C7_Witness ==
    \E id \in Rows :
        /\ peps[id].status = "former"
        /\ peps[id].pep_type = "domestic"
        /\ peps[id].end_date = today - 6
        /\ peps[id].risk_level = "low"

\* C8: for a PEP record that is neither deceased nor former the risk level
\* follows from the PEP type: domestic high, foreign high, international
\* high for the positions intl_director and intl_board and medium for any
\* other position.
C8_ActiveRiskByType ==
    \A id \in Rows :
        peps[id].status \notin {"deceased", "former"} =>
            peps[id].risk_level =
                CASE peps[id].pep_type = "domestic" -> "high"
                  [] peps[id].pep_type = "foreign" -> "high"
                  [] peps[id].pep_type = "international" ->
                        IF peps[id].position \in {"intl_director", "intl_board"}
                          THEN "high" ELSE "medium"

\* An active international PEP on a board, at high risk.
C8_Witness ==
    \E id \in Rows :
        /\ peps[id].status = "active"
        /\ peps[id].pep_type = "international"
        /\ peps[id].position = "intl_board"
        /\ peps[id].risk_level = "high"

\* The PEP type the derivation rules give.
PepTypeRule(organization_type, nationality, home) ==
    IF organization_type = "international_org" THEN "international"
    ELSE IF nationality # "False" /\ nationality = home THEN "domestic"
    ELSE "foreign"

\* C9: the PEP type is international whenever the organization type is
\* international_org, regardless of nationality; otherwise domestic when
\* the nationality is the company's country; otherwise foreign, also for
\* an unset nationality.
C9_PepTypeDerivation ==
    \A id \in Rows :
        peps[id].pep_type =
            PepTypeRule(peps[id].organization_type, peps[id].nationality,
                        company_country)

\* A national of the home country at an international organization.
C9_Witness ==
    \E id \in Rows :
        /\ peps[id].organization_type = "international_org"
        /\ peps[id].nationality = company_country
        /\ company_country = "MN"
        /\ peps[id].pep_type = "international"

\* The risk tier the classification rules give to a record's attributes in
\* a given year, the PEP type taken from the derivation rules.
RiskRule(rec, home, year) ==
    LET type == PepTypeRule(rec.organization_type, rec.nationality, home)
    IN  IF rec.status = "deceased" THEN "low"
        ELSE IF rec.status = "former"
          THEN IF rec.end_date # 0 /\ year - rec.end_date > 5
                 THEN "low" ELSE "medium"
        ELSE IF type \in {"domestic", "foreign"} THEN "high"
        ELSE IF rec.position \in {"intl_director", "intl_board"} THEN "high"
        ELSE "medium"

\* C10: after any sequence of creations and edits of nationality,
\* organization type, position, status and end year, the stored risk level
\* is the tier the rules give to the record's current attributes (in a
\* year between the first year and the current one).
C10_RiskFollowsEdits ==
    \A id \in Rows :
        \E year \in FirstYear..today :
            peps[id].risk_level = RiskRule(peps[id], company_country, year)

\* A former PEP two years out of office, at medium risk.
C10_Witness ==
    \E id \in Rows :
        /\ peps[id].status = "former"
        /\ peps[id].end_date = FirstYear - 2
        /\ peps[id].organization_type = "international_org"
        /\ peps[id].risk_level = "medium"

----------------------------------------------------------------------------
(* Risk level and the calendar: claim C11 *)

\* C11 as stated: in every state, also one reached only by the calendar
\* year advancing with no edit of the record, the stored risk level of a
\* former PEP is what the more-than-5-years rule gives for today.
C11_RiskNeverStale ==
    \A id \in Rows :
        peps[id].status = "former" =>
            peps[id].risk_level =
                IF peps[id].end_date # 0 /\ today - peps[id].end_date > 5
                  THEN "low" ELSE "medium"

----------------------------------------------------------------------------
(* Screening against a register of at most one record, where most runs go *)
(* on to the external classifier *)

\* The record this specification creates.
ExternalIds == {1}

ExternalCreate == \E id \in ExternalIds, vals \in ScreenVals : create(id, vals)

ExternalArchive ==
    \E id \in ExternalIds, value \in BOOLEAN : write(id, "active", value)

ExternalNext ==
    \/ ExternalCreate
    \/ ExternalArchive
    \/ ScreenRun
    \/ ScreenEdit

SpecExternal == ScreenInit /\ [][ExternalNext]_vars

----------------------------------------------------------------------------
(* The external classifier: claims C17 to C20 *)

\* The number of external classifier calls in a log of lookups.
ExternalCalls(log) == Cardinality({i \in DOMAIN log : log[i] = "external_call"})

\* C17: a run in which the external classifier answers with a well-formed
\* verdict leaves the result possible when is_pep is true and no_match when
\* is_pep is false; no run that returns after an external call leaves the
\* result match.
C17_ExternalVerdict ==
    [][ScreeningRuns =>
          /\ action_screen_name("is_pep_true") => screening'.result = "possible"
          /\ action_screen_name("is_pep_false") => screening'.result = "no_match"
          /\ (ExternalCalls(calls') > 0 /\ outcome' = "returned") =>
                screening'.result \in {"possible", "no_match"}]_vars

\* A run that ended with the classifier's positive verdict.
C17_Witness ==
    /\ outcome = "returned"
    /\ ExternalCalls(calls) = 1
    /\ screening.result = "possible"
    /\ screening.evidence_refs = "source_urls"
    /\ screening.screening_method = "ai_screening"

\* C18: a run in which the external call fails, or answers with text that
\* cannot be parsed, ends with an error and leaves the result, the notes,
\* the evidence references, the screening method and the screening date of
\* the screening record as they were before the run.
C18_ExternalFailureIsError ==
    [][ScreeningRuns =>
          \A response \in {"api_error", "not_json"} :
              action_screen_name(response) =>
                  /\ outcome' = "UserError"
                  /\ screening' = screening]_vars

\* A second run that failed at the external call, the record of the first
\* run still in place.
C18_Witness ==
    /\ outcome = "UserError"
    /\ ExternalCalls(calls) = 1
    /\ now = 2
    /\ screening.result = "no_match"
    /\ screening.screening_date = 1

\* C19 as stated: a run in which the external classifier's answer parses but
\* is not the expected verdict (a JSON object without is_pep, or JSON that
\* is no object) ends with an error and leaves the screening record as it
\* was.
C19_UnexpectedVerdictIsError ==
    [][ScreeningRuns =>
          \A response \in {"no_is_pep", "not_object"} :
              action_screen_name(response) =>
                  /\ outcome' = "UserError"
                  /\ screening' = screening]_vars

\* C20: a run makes at most one external classifier call, and an error of
\* that call ends the run with the error: the failed call is the last
\* lookup of the run.
C20_OneExternalCall ==
    [][ScreeningRuns =>
          /\ ExternalCalls(calls') <= 1
          /\ \A response \in {"api_error", "not_json", "not_object"} :
                action_screen_name(response) =>
                    /\ outcome' = "UserError"
                    /\ calls' = <<"internal_search", "external_call">>]_vars

\* A first run that ended with the error of its one external call.
C20_Witness ==
    /\ outcome = "UserError"
    /\ calls = <<"internal_search", "external_call">>
    /\ screening.result = "False"
    /\ now = 1

----------------------------------------------------------------------------
(* The dates of the EDD reviews of one PEP record *)

\* action_schedule_edd_review: the last review is set to today.
action_schedule_edd_review(id) == write(id, "edd_last_review", Date_today)

\* The calendar moves on to a later date d.
AdvanceDate(d) ==
    /\ d # Date_today
    /\ date_le(Date_today, d)
    /\ today' = d[1]
    /\ today_md' = <<d[2], d[3]>>
    /\ UNCHANGED <<peps, company_country, jellyfish, orm_result>>
    /\ UNCHANGED screenVars
    /\ UNCHANGED sweepVars
    /\ UNCHANGED tableVars

Frequencies == {"monthly", "quarterly", "semi_annual", "annual"}

\* The years of the last reviews that are entered by hand, one of them a
\* leap year, and the days of the month tried.
ReviewYears == {2023, 2024}
ReviewMonthDays == {1, 28, 29, 30, 31}
ReviewDates ==
    {dt \in ReviewYears \X (1..12) \X ReviewMonthDays :
        dt[3] <= monthrange(dt[1], dt[2])}

\* The days on which the record is created and edited.
ReviewDays == {<<FirstYear, 1, 31>>, <<FirstYear, 3, 31>>}

ReviewVals ==
    CreateVals({NameKan}, {"False"}, {"False"}, {"head_state"},
               {"government"}, {"active"}, {0})

ReviewInit ==
    /\ peps = [id \in PepIds |-> NoPep]
    /\ today = FirstYear
    /\ today_md = <<1, 31>>
    /\ company_country = "MN"
    /\ jellyfish = TRUE
    /\ orm_result = "ok"
    /\ ScreenIdle
    /\ SweepIdle
    /\ TablesIdle

ReviewCreate == \E id \in LifecycleIds, vals \in ReviewVals : create(id, vals)

ReviewWriteLast ==
    \E id \in LifecycleIds, dt \in ReviewDates \cup {NoDate} :
        write(id, "edd_last_review", dt)

ReviewWriteFrequency ==
    \E id \in LifecycleIds, f \in Frequencies \cup {"False"} :
        write(id, "monitoring_frequency", f)

ReviewSchedule == \E id \in LifecycleIds : action_schedule_edd_review(id)

ReviewAdvance == \E d \in ReviewDays : AdvanceDate(d)

ReviewNext ==
    \/ ReviewCreate
    \/ ReviewWriteLast
    \/ ReviewWriteFrequency
    \/ ReviewSchedule
    \/ ReviewAdvance

SpecReview == ReviewInit /\ [][ReviewNext]_vars

----------------------------------------------------------------------------
(* Next review date: claims C15 and C16 *)

\* The step computes the next review date of row id: the row is created,
\* or its last review or its monitoring frequency changes.
NextReviewComputed(id) ==
    /\ peps'[id].exists
    /\ ~peps[id].exists
          \/ next_review_depends(peps'[id]) # next_review_depends(peps[id])

\* C15: whenever the next review date of a record with no last review is
\* computed it is the date of that day, for every monitoring frequency; and
\* a record with no last review always has a next review date on or before
\* today, so that it is due at any later sweep.
C15_NoLastReviewDueToday ==
    [][\A id \in PepIds :
          (peps'[id].exists /\ peps'[id].edd_last_review = NoDate) =>
              /\ peps'[id].edd_next_review # NoDate
              /\ date_le(peps'[id].edd_next_review, Date_today')
              /\ NextReviewComputed(id) =>
                    peps'[id].edd_next_review = Date_today']_vars

\* A record without last review whose frequency was set to annual on the
\* later day.
C15_Witness ==
    \E id \in Rows :
        /\ peps[id].edd_last_review = NoDate
        /\ peps[id].monitoring_frequency = "annual"
        /\ Date_today = <<FirstYear, 3, 31>>
        /\ peps[id].edd_next_review = Date_today

\* The months a monitoring frequency stands for.
FrequencyMonths(f) ==
    CASE f = "monthly" -> 1
      [] f = "quarterly" -> 3
      [] f = "semi_annual" -> 6
      [] f = "annual" -> 12

\* The last day of a month.
LastDay(year, month) ==
    IF month = 2
      THEN (IF year % 4 = 0 /\ (year % 100 # 0 \/ year % 400 = 0) THEN 29 ELSE 28)
      ELSE <<31, 28, 31, 30, 31, 30, 31, 31, 30, 31, 30, 31>>[month]

\* A date n months later, the day clamped to the last day of the month.
PlusMonths(dt, n) ==
    LET total == dt[1] * 12 + (dt[2] - 1) + n
        year == total \div 12
        month == (total % 12) + 1
    IN  <<year, month, IF dt[3] > LastDay(year, month)
                         THEN LastDay(year, month) ELSE dt[3]>>

\* C16: for a record with a last review date and one of the four monitoring
\* frequencies the next review date is that date plus 1, 3, 6 or 12 months,
\* the day clamped to the last valid day of the month reached; 2024-01-31
\* monthly gives 2024-02-29 and 2023-01-31 monthly gives 2023-02-28.
C16_NextReviewAddsMonths ==
    \A id \in Rows :
        (peps[id].edd_last_review # NoDate
         /\ peps[id].monitoring_frequency \in Frequencies) =>
            /\ peps[id].edd_next_review =
                  PlusMonths(peps[id].edd_last_review,
                             FrequencyMonths(peps[id].monitoring_frequency))
            /\ (peps[id].edd_last_review = <<2024, 1, 31>>
                /\ peps[id].monitoring_frequency = "monthly") =>
                    peps[id].edd_next_review = <<2024, 2, 29>>
            /\ (peps[id].edd_last_review = <<2023, 1, 31>>
                /\ peps[id].monitoring_frequency = "monthly") =>
                    peps[id].edd_next_review = <<2023, 2, 28>>

\* The leap-year example of the claim.
C16_Witness ==
    \E id \in Rows :
        /\ peps[id].edd_last_review = <<2024, 1, 31>>
        /\ peps[id].monitoring_frequency = "monthly"
        /\ peps[id].edd_next_review = <<2024, 2, 29>>

----------------------------------------------------------------------------
(* The review sweep: _run_edd_review_scheduler *)

\* How many runs of the sweep may begin.
MaxSweeps == 2

\* The mutant of search_for_review: the status leaf is missing.
search_for_review_any_status(t, asof) ==
    {id \in DOMAIN t :
        /\ t[id].exists
        /\ t[id].active
        /\ t[id].risk_level = "high"
        /\ t[id].edd_next_review # NoDate
        /\ date_le(t[id].edd_next_review, asof)
        /\ t[id].edd_status # "review_needed"}

\* The search of the sweep on date asof: the four leaves of its domain.  An
\* unset next review date satisfies no comparison, and the ORM leaves
\* archived rows out.
search_for_review(t, asof) ==
    {id \in DOMAIN t :
        /\ t[id].exists
        /\ t[id].active
        /\ t[id].risk_level = "high"
        /\ t[id].edd_next_review # NoDate
        /\ date_le(t[id].edd_next_review, asof)
        /\ t[id].status = "active"
        /\ t[id].edd_status # "review_needed"}

\* The table after the loop of the sweep has flagged the rows ids.
flagged_rows(t, ids) ==
    [id \in DOMAIN t |->
        IF id \in ids THEN [t[id] EXCEPT !.edd_status = "review_needed"] ELSE t[id]]

\* The mail.activity table after the loop has created one activity for each
\* of the rows ids.
created_activities(acts, ids) ==
    [id \in DOMAIN acts |-> IF id \in ids THEN acts[id] + 1 ELSE acts[id]]

\* The mutant of review_sweep: the loop creates the activities and leaves
\* edd_status alone.
review_sweep_unflagged(t, acts, asof, refs) ==
    LET found == search_for_review(t, asof)
    IN  IF found = {} \/ ~refs
          THEN [peps |-> t, activities |-> acts, peps_for_review |-> found]
          ELSE [peps |-> t,
                activities |-> created_activities(acts, found),
                peps_for_review |-> found]

\* One run of _run_edd_review_scheduler on table t and activities acts: it
\* returns early when the search is empty or a reference is missing, and
\* flags every row found otherwise.
review_sweep(t, acts, asof, refs) ==
    LET found == search_for_review(t, asof)
    IN  IF found = {} \/ ~refs
          THEN [peps |-> t, activities |-> acts, peps_for_review |-> found]
          ELSE [peps |-> flagged_rows(t, found),
                activities |-> created_activities(acts, found),
                peps_for_review |-> found]

\* The scheduled action, run alone in its transaction.
_run_edd_review_scheduler ==
    /\ sweep_runs < MaxSweeps
    /\ LET run == review_sweep(peps, activities, Date_today, activity_refs)
       IN  /\ peps' = run.peps
           /\ activities' = run.activities
           /\ peps_for_review' = run.peps_for_review
    /\ sweep_runs' = sweep_runs + 1
    /\ UNCHANGED <<today, today_md, company_country, jellyfish, orm_result>>
    /\ UNCHANGED <<activity_refs, txn>>
    /\ UNCHANGED screenVars
    /\ UNCHANGED tableVars

\* PEPApprovalWizard.action_confirm_approval, for its write of edd_status.
action_confirm_approval(id) == write(id, "edd_status", "completed")

\* The records the sweep specifications create.
SweepIds == {1, 2}

\* The days of the run: a review scheduled on the first is due on the last.
SweepDays == {<<FirstYear, 1, 31>>, <<FirstYear, 4, 29>>, <<FirstYear, 4, 30>>}

\* PEPs that are active, former or of no status, of high risk (government)
\* and of medium risk (a senior official of an international organization).
SweepVals ==
    CreateVals({NameKan}, {"False"}, {"False"}, {"intl_senior"},
               {"government", "international_org"},
               {"False", "active", "former"}, {0})

SweepInit ==
    /\ peps = [id \in PepIds |-> NoPep]
    /\ today = FirstYear
    /\ today_md = <<1, 31>>
    /\ company_country = "MN"
    /\ jellyfish = TRUE
    /\ orm_result = "ok"
    /\ ScreenIdle
    /\ TablesIdle
    /\ activity_refs \in BOOLEAN
    /\ activities = [id \in PepIds |-> 0]
    /\ peps_for_review = {}
    /\ sweep_runs = 0
    /\ txn = [p \in Sweepers |-> IdleTxn]

SweepCreate == \E id \in SweepIds, vals \in SweepVals : create(id, vals)

SweepArchive == \E id \in SweepIds, value \in BOOLEAN : write(id, "active", value)

SweepApprove == \E id \in SweepIds : action_confirm_approval(id)

SweepSchedule == \E id \in SweepIds : action_schedule_edd_review(id)

SweepAdvance == \E d \in SweepDays : AdvanceDate(d)

SweepRun == _run_edd_review_scheduler

SweepNext ==
    \/ SweepCreate
    \/ SweepArchive
    \/ SweepApprove
    \/ SweepSchedule
    \/ SweepAdvance
    \/ SweepRun

SpecSweep == SweepInit /\ [][SweepNext]_vars

----------------------------------------------------------------------------
(* The review sweep: claims C12 and C13 *)

\* The step is one run of the sweep.
SweepRuns == sweep_runs' # sweep_runs

\* The stored records that are due for review on date asof: risk level
\* high, status active, next review on or before asof, not yet flagged.
DueForReview(t, asof) ==
    {id \in DOMAIN t :
        /\ t[id].exists
        /\ t[id].risk_level = "high"
        /\ t[id].status = "active"
        /\ t[id].edd_next_review # NoDate
        /\ date_le(t[id].edd_next_review, asof)
        /\ t[id].edd_status # "review_needed"}

\* C12 as stated: a run of the sweep selects exactly the stored records
\* that are due for review on the day of the run.
C12_SelectsAllDue ==
    [][SweepRuns => peps_for_review' = DueForReview(peps, Date_today)]_vars

\* C12 as amended: a run of the sweep selects exactly the records that are
\* not archived and are due for review on the day of the run.
C12_SelectsActiveDue ==
    [][SweepRuns =>
          peps_for_review' =
              {id \in DueForReview(peps, Date_today) : peps[id].active}]_vars

\* A first run that selected one record and left out another that fails
\* only the date condition.
C12_Witness ==
    /\ sweep_runs = 1
    /\ \E a \in peps_for_review, b \in Rows \ peps_for_review :
          /\ peps_for_review = {a}
          /\ peps[b].active
          /\ peps[b].risk_level = "high"
          /\ peps[b].status = "active"
          /\ peps[b].edd_status = "pending"
          /\ ~date_le(peps[b].edd_next_review, Date_today)

\* What a run of the sweep does when it flags: every selected record gets
\* edd_status review_needed and one more activity, no other record and no
\* other activity count changes, and a second run at once selects nothing
\* and changes nothing.
FlagsSelectedOnce ==
    /\ \A id \in peps_for_review' :
          /\ peps'[id].edd_status = "review_needed"
          /\ activities'[id] = activities[id] + 1
    /\ \A id \in PepIds \ peps_for_review' :
          /\ peps'[id] = peps[id]
          /\ activities'[id] = activities[id]
    /\ review_sweep(peps', activities', Date_today', activity_refs')
          = [peps |-> peps', activities |-> activities', peps_for_review |-> {}]

\* C13 as stated: every run of the sweep flags each selected record and
\* creates exactly one activity for it, and a second run on the same day
\* with no other change selects nothing, creates nothing and changes
\* nothing.
C13_EverySweepFlags == [][SweepRuns => FlagsSelectedOnce]_vars

\* C13 as amended: the same, for a run that finds the manager group and the
\* To Do activity type; a run that finds one of them missing changes no
\* record and creates no activity.
C13_SweepFlagsOnce ==
    [][SweepRuns =>
          IF activity_refs
            THEN FlagsSelectedOnce
            ELSE peps' = peps /\ activities' = activities]_vars

\* Two runs on the first day: the second selected nothing, and the record
\* flagged by the first has its one activity.
C13_Witness ==
    /\ sweep_runs = 2
    /\ activity_refs
    /\ peps_for_review = {}
    /\ Date_today = <<FirstYear, 1, 31>>
    /\ \E id \in Rows :
          /\ peps[id].edd_status = "review_needed"
          /\ activities[id] = 1

----------------------------------------------------------------------------
(* Two runs of the review sweep at once *)

(***************************************************************************)
(* Every run of _run_edd_review_scheduler is one database transaction.     *)
(* The ORM's cursors are REPEATABLE READ: a run reads from the snapshot    *)
(* taken at its first query, its writes stay private until it commits,     *)
(* and of two transactions that update the same row the database lets one  *)
(* commit and fails the other with a serialization error, which rolls the  *)
(* whole run back.  peps and activities are the committed tables.          *)
(***************************************************************************)

\* The mutant of commit_conflict: no update is ever refused.
commit_conflict_never(t, tx) == FALSE

\* Whether the database refuses the updates of transaction tx: a row it
\* flagged was changed by a transaction that committed after its snapshot.
commit_conflict(t, tx) == \E id \in tx.flagged : t[id] # tx.snapshot[id]

\* Run p begins: the search on its snapshot, and the two env.ref lookups.
\* It returns at once on an empty search or a missing reference.
sweep_begin(p) ==
    /\ txn[p].pc # "flagging"
    /\ sweep_runs < MaxSweeps
    /\ LET found == search_for_review(peps, Date_today)
       IN  /\ peps_for_review' = found
           /\ txn' = [txn EXCEPT ![p] =
                        IF found = {} \/ ~activity_refs
                          THEN [IdleTxn EXCEPT !.pc = "done"]
                          ELSE [pc |-> "flagging", todo |-> found,
                                flagged |-> {}, snapshot |-> peps]]
    /\ sweep_runs' = sweep_runs + 1
    /\ UNCHANGED <<activity_refs, activities>>
    /\ UNCHANGED pepVars
    /\ UNCHANGED screenVars
    /\ UNCHANGED tableVars

\* One pass of the loop of run p: the next record of its recordset gets
\* edd_status review_needed and an activity, inside the transaction.
sweep_flag(p) ==
    /\ txn[p].pc = "flagging"
    /\ txn[p].todo # {}
    /\ LET pep == CHOOSE id \in txn[p].todo : \A other \in txn[p].todo : id <= other
       IN  txn' = [txn EXCEPT ![p].todo = @ \ {pep}, ![p].flagged = @ \cup {pep}]
    /\ UNCHANGED <<activity_refs, activities, peps_for_review, sweep_runs>>
    /\ UNCHANGED pepVars
    /\ UNCHANGED screenVars
    /\ UNCHANGED tableVars

\* Run p returns and its transaction ends: its updates and its activities
\* are committed, or the serialization error rolls all of them back.
sweep_commit(p) ==
    /\ txn[p].pc = "flagging"
    /\ txn[p].todo = {}
    /\ IF commit_conflict(peps, txn[p])
         THEN /\ txn' = [txn EXCEPT ![p] = [IdleTxn EXCEPT !.pc = "aborted"]]
              /\ UNCHANGED <<peps, activities>>
         ELSE /\ peps' = flagged_rows(peps, txn[p].flagged)
              /\ activities' = created_activities(activities, txn[p].flagged)
              /\ txn' = [txn EXCEPT ![p] = [IdleTxn EXCEPT !.pc = "done"]]
    /\ UNCHANGED <<activity_refs, peps_for_review, sweep_runs>>
    /\ UNCHANGED <<today, today_md, company_country, jellyfish, orm_result>>
    /\ UNCHANGED screenVars
    /\ UNCHANGED tableVars

\* Active PEPs of high and of medium risk, due on the day they are created.
ConcurrentVals ==
    CreateVals({NameKan}, {"False"}, {"False"}, {"intl_senior"},
               {"government", "international_org"}, {"active"}, {0})

ConcurrentInit == SweepInit

\* The register is filled before the first sweep begins.
ConcurrentCreate ==
    /\ sweep_runs = 0
    /\ \E id \in SweepIds, vals \in ConcurrentVals : create(id, vals)

ConcurrentBegin == \E p \in Sweepers : sweep_begin(p)

ConcurrentFlag == \E p \in Sweepers : sweep_flag(p)

ConcurrentCommit == \E p \in Sweepers : sweep_commit(p)

ConcurrentNext ==
    \/ ConcurrentCreate
    \/ ConcurrentBegin
    \/ ConcurrentFlag
    \/ ConcurrentCommit

SpecConcurrent == ConcurrentInit /\ [][ConcurrentNext]_vars

----------------------------------------------------------------------------
(* Concurrent sweeps: claim C14 *)

\* Both invocations have run and ended.
Settled == \A p \in Sweepers : txn[p].pc \in {"done", "aborted"}

\* The records that meet every condition of the sweep but the edd_status
\* one: the eligible records, flagged or not.
Eligible ==
    {id \in Rows :
        /\ peps[id].active
        /\ peps[id].risk_level = "high"
        /\ peps[id].status = "active"
        /\ date_le(peps[id].edd_next_review, Date_today)}

\* No record has two activities, and a record has an activity exactly when
\* it is flagged.
NoDoubleFlag ==
    \A id \in PepIds :
        activities[id] = IF peps[id].edd_status = "review_needed" THEN 1 ELSE 0

\* Every eligible record is flagged and has its one activity.
AllEligibleFlagged ==
    \A id \in Eligible :
        peps[id].edd_status = "review_needed" /\ activities[id] = 1

----------------------------------------------------------------------------
(* No classifier configured: claim C21 *)

\* C21 as stated: a run whose internal search returns no record while no
\* external classifier is configured ends with the result no_match; and the
\* external classifier is called only when it is configured.
C21_UnconfiguredIsNoMatch ==
    [][ScreeningRuns =>
          /\ (matched_peps' = {} /\ genai_config # "configured") =>
                (outcome' = "returned" /\ screening'.result = "no_match")
          /\ ExternalCalls(calls') > 0 => genai_config = "configured"]_vars

----------------------------------------------------------------------------
(* The register under creations: names and dates of birth that repeat *)

\* Dates of birth are compared for equality only; "False" is an unset one.
RegisterDobs == {"False", "1970-01-01", "1980-02-02"}

RegisterVals ==
    CreateVals({NameKan, NameCan}, RegisterDobs, {"US"}, {"head_state"},
               {"government"}, {"active"}, {0})

RegisterCreate == \E id \in PepIds, vals \in RegisterVals : create(id, vals)

RegisterArchive == \E id \in PepIds, value \in BOOLEAN : write(id, "active", value)

RegisterNext ==
    \/ RegisterCreate
    \/ RegisterArchive

SpecRegister == Init /\ [][RegisterNext]_vars

\* C22 as stated: after any sequence of creations no two active records
\* share the same name and the same date of birth, an unset date of birth
\* being a date of birth like any other.
C22_NoTwoShareNameAndDob ==
    \A a \in Rows, b \in Rows :
        (a # b /\ peps[a].active /\ peps[b].active) =>
            ~(peps[a].name = peps[b].name
              /\ peps[a].date_of_birth = peps[b].date_of_birth)

----------------------------------------------------------------------------
(* pep.person under callers of the ORM that give pep_type a value *)

\* pep_type is a stored computed field: a value a caller gives for it in
\* create is stored as given and the compute method is not run for it.  The
\* forms and the code of the module never give one.
new_record_given(vals, pep_type, day, cc, jf) ==
    LET r2 == [new_record(vals, day, cc, jf) EXCEPT !.pep_type = pep_type]
        r3 == [r2 EXCEPT !.risk_level = _compute_risk_level(r2, day[1])]
    IN  r3

\* pep.person.create(vals) with pep_type among the values.
create_given(id, vals, pep_type) ==
    /\ ~peps[id].exists
    /\ \A lesser \in 1..(id - 1) : peps[lesser].exists
    /\ LET rec == new_record_given(vals, pep_type, Date_today,
                                   company_country, jellyfish)
           verdict == orm_verdict(peps, id, rec)
       IN  /\ orm_result' = verdict
           /\ peps' = IF verdict = "ok" THEN [peps EXCEPT ![id] = rec] ELSE peps
    /\ UNCHANGED <<today, today_md, company_country, jellyfish>>
    /\ UNCHANGED screenVars
    /\ UNCHANGED sweepVars
    /\ UNCHANGED tableVars

PepTypes == {"domestic", "foreign", "international"}

DirectVals ==
    CreateVals({NameKan}, {"False"}, {"False", "US"}, {"head_state"},
               OrgTypes, {"active", "deceased"}, {0})

DirectEdits ==
    ({"pep_type"} \X PepTypes)
    \cup ({"organization_type"} \X OrgTypes)
    \cup ({"nationality"} \X {"False", "US"})

DirectCreate ==
    \E id \in LifecycleIds, vals \in DirectVals, pep_type \in PepTypes :
        create_given(id, vals, pep_type)

DirectWrite == \E id \in LifecycleIds, e \in DirectEdits : write(id, e[1], e[2])

DirectNext ==
    \/ DirectCreate
    \/ DirectWrite

SpecDirect == Init /\ [][DirectNext]_vars

\* The combination _check_pep_type_consistency is there to keep out.
InternationalWithoutOrg(rec) ==
    rec.pep_type = "international" /\ rec.organization_type # "international_org"

\* C23: a create or a write that would leave a record with pep_type
\* international and an organization_type other than international_org ends
\* in a ValidationError and leaves the table as it was.
C23_InconsistentTypeRejected ==
    [][/\ \A id \in LifecycleIds, vals \in DirectVals, pep_type \in PepTypes :
            (/\ create_given(id, vals, pep_type)
             /\ InternationalWithoutOrg(
                    new_record_given(vals, pep_type, Date_today,
                                     company_country, jellyfish)))
                => (orm_result' = "ValidationError" /\ peps' = peps)
       /\ \A id \in LifecycleIds, e \in DirectEdits :
            (/\ write(id, e[1], e[2])
             /\ InternationalWithoutOrg(
                    written_record(peps[id], e[1], e[2], Date_today,
                                   company_country, jellyfish)))
                => (orm_result' = "ValidationError" /\ peps' = peps)
       /\ \A id \in LifecycleIds : ~InternationalWithoutOrg(peps'[id])]_vars

\* A write of pep_type = international on a government record was refused.
C23_Witness ==
    /\ orm_result = "ValidationError"
    /\ peps[1].exists
    /\ peps[1].organization_type = "government"
    /\ peps[1].pep_type # "international"

----------------------------------------------------------------------------
(* pep.relationship: the family members and close associates of a PEP *)

\* The mutant of _check_relation_consistency: only family rows are checked.
_check_relation_consistency_family_only(rec) ==
    ~(rec.relationship_type = "family" /\ rec.family_relation = "False")

\* _check_relation_consistency: TRUE when the row passes.
_check_relation_consistency(rec) ==
    /\ ~(rec.relationship_type = "family" /\ rec.family_relation = "False")
    /\ ~(rec.relationship_type = "associate" /\ rec.association_type = "False")

\* The row a create call inserts: relationship_type left out of the values
\* takes its default, family.
new_relationship(vals) ==
    [exists |-> TRUE, pep_id |-> vals.pep_id,
     relationship_type |-> IF vals.relationship_type = "False" THEN "family"
                           ELSE vals.relationship_type,
     family_relation |-> vals.family_relation,
     association_type |-> vals.association_type]

\* The row a write of the three fields leaves.
written_relationship(old, vals) ==
    [old EXCEPT !.relationship_type = vals.relationship_type,
                !.family_relation = vals.family_relation,
                !.association_type = vals.association_type]

\* pep.relationship.create(vals) for an existing PEP.
create_relationship(id, vals) ==
    /\ ~relationships[id].exists
    /\ peps[vals.pep_id].exists
    /\ LET rec == new_relationship(vals)
           verdict == IF _check_relation_consistency(rec) THEN "ok"
                      ELSE "ValidationError"
       IN  /\ orm_result' = verdict
           /\ relationships' = IF verdict = "ok"
                                 THEN [relationships EXCEPT ![id] = rec]
                                 ELSE relationships
    /\ UNCHANGED <<peps, today, today_md, company_country, jellyfish>>
    /\ UNCHANGED result_lines
    /\ UNCHANGED screenVars
    /\ UNCHANGED sweepVars

\* record.write(vals) on an existing pep.relationship row.
write_relationship(id, vals) ==
    /\ relationships[id].exists
    /\ LET rec == written_relationship(relationships[id], vals)
           verdict == IF _check_relation_consistency(rec) THEN "ok"
                      ELSE "ValidationError"
       IN  /\ orm_result' = verdict
           /\ relationships' = IF verdict = "ok"
                                 THEN [relationships EXCEPT ![id] = rec]
                                 ELSE relationships
    /\ UNCHANGED <<peps, today, today_md, company_country, jellyfish>>
    /\ UNCHANGED result_lines
    /\ UNCHANGED screenVars
    /\ UNCHANGED sweepVars

RelationshipTypes == {"family", "associate"}
FamilyRelations == {"False", "spouse", "child"}
AssociationTypes == {"False", "business_partner"}

RelationCreateVals ==
    [pep_id : LifecycleIds, relationship_type : {"False"} \cup RelationshipTypes,
     family_relation : FamilyRelations, association_type : AssociationTypes]

RelationWriteVals ==
    [relationship_type : RelationshipTypes,
     family_relation : FamilyRelations, association_type : AssociationTypes]

RelationPepVals ==
    CreateVals({NameKan}, {"False"}, {"US"}, {"head_state"}, {"government"},
               {"active"}, {0})

RelationPepCreate ==
    \E id \in LifecycleIds, vals \in RelationPepVals : create(id, vals)

RelationCreate ==
    \E id \in RelationIds, vals \in RelationCreateVals : create_relationship(id, vals)

RelationWrite ==
    \E id \in RelationIds, vals \in RelationWriteVals : write_relationship(id, vals)

RelationNext ==
    \/ RelationPepCreate
    \/ RelationCreate
    \/ RelationWrite

SpecRelation == Init /\ [][RelationNext]_vars

\* The sub-type of a row is present and is the one of its kind.
SubTypeMatches(rec) ==
    \/ rec.relationship_type = "family" /\ rec.family_relation \in FamilyRelations \ {"False"}
    \/ rec.relationship_type = "associate"
       /\ rec.association_type \in AssociationTypes \ {"False"}

\* C24: every stored relationship row carries the sub-type of its kind (a
\* family row a family relation, an associate row an association type), and
\* a create or a write that would store a row without it ends in a
\* ValidationError and leaves the table as it was.
C24_SubTypeMatchesKind ==
    [][/\ \A id \in RelationIds :
            relationships'[id].exists => SubTypeMatches(relationships'[id])
       /\ \A id \in RelationIds, vals \in RelationCreateVals :
            (create_relationship(id, vals) /\ ~SubTypeMatches(new_relationship(vals)))
                => (orm_result' = "ValidationError" /\ relationships' = relationships)
       /\ \A id \in RelationIds, vals \in RelationWriteVals :
            (/\ write_relationship(id, vals)
             /\ ~SubTypeMatches(written_relationship(relationships[id], vals)))
                => (orm_result' = "ValidationError" /\ relationships' = relationships)]_vars

\* A family row and an associate row are stored and a write has been refused.
C24_Witness ==
    /\ orm_result = "ValidationError"
    /\ \E id \in RelationIds :
          /\ relationships[id].exists
          /\ relationships[id].relationship_type = "associate"
    /\ \E id \in RelationIds :
          /\ relationships[id].exists
          /\ relationships[id].relationship_type = "family"

----------------------------------------------------------------------------
(* Claim on the phonetic key *)

\* C25 as stated: in every reachable state the stored name_phonetic of a
\* record is the metaphone code of its current name; a name that is not
\* empty has a key, and an empty name has the no-key value.
C25_EveryNameHasKey ==
    \A id \in Rows :
        IF peps[id].name # <<>>
          THEN /\ peps[id].name_phonetic = metaphone(peps[id].name)
               /\ peps[id].name_phonetic # NoKey
          ELSE peps[id].name_phonetic = NoKey

----------------------------------------------------------------------------
(* Claims on the review activities over several sweeps *)

\* C26 as stated: over sweeps, approvals and edits of edd_status, a record
\* whose edd_last_review has not changed (it is created unset and no write
\* unsets it) has at most one review activity.
C26_OneActivityPerReview ==
    \A id \in SweepIds :
        (peps[id].exists /\ peps[id].edd_last_review = NoDate) =>
            activities[id] <= 1

----------------------------------------------------------------------------
(* The sweep as a recurring scheduled action *)

\* One run of the scheduled action among runs that never stop: sweep_runs
\* counts the runs up to MaxSweeps and stays there.
recurring_sweep ==
    /\ LET run == review_sweep(peps, activities, Date_today, activity_refs)
       IN  /\ peps' = run.peps
           /\ activities' = run.activities
           /\ peps_for_review' = run.peps_for_review
    /\ sweep_runs' = IF sweep_runs < MaxSweeps THEN sweep_runs + 1 ELSE sweep_runs
    /\ UNCHANGED <<today, today_md, company_country, jellyfish, orm_result>>
    /\ UNCHANGED <<activity_refs, txn>>
    /\ UNCHANGED screenVars
    /\ UNCHANGED tableVars

RecurRun == recurring_sweep

\* The review of a record a sweep has flagged is recorded.
RecurSchedule ==
    \E id \in SweepIds :
        /\ peps[id].edd_status = "review_needed"
        /\ action_schedule_edd_review(id)

RecurNext ==
    \/ SweepCreate
    \/ RecurSchedule
    \/ SweepAdvance
    \/ RecurRun

\* The scheduler keeps running the sweep: a run that would change something
\* is not put off for ever.
SpecRecur == SweepInit /\ [][RecurNext]_vars /\ WF_vars(RecurRun)

\* Record id was flagged by a sweep, its review was then recorded (records
\* are created with no review, and only a flagged one has its review
\* recorded), and the next review date that followed has passed; it is
\* active and of high risk.
ReviewedAndDueAgain(id) ==
    /\ peps[id].exists
    /\ peps[id].active
    /\ peps[id].status = "active"
    /\ peps[id].risk_level = "high"
    /\ activities[id] = 1
    /\ peps[id].edd_last_review # NoDate
    /\ date_le(peps[id].edd_next_review, Date_today)

\* C27 as stated: a record that was flagged and then had its review recorded
\* with action_schedule_edd_review is, once its new edd_next_review has
\* passed, flagged by a later sweep, which creates a new review activity.
C27_FlaggedAgainAfterReview ==
    \A id \in SweepIds : ReviewedAndDueAgain(id) ~> (activities[id] >= 2)

----------------------------------------------------------------------------
(* Claim on the matched PEP over repeated runs *)

\* C29 as stated: after any runs of action_screen_name on the screening
\* record, its name edited in between, the record has a matched_pep_id only
\* when its result is match.
C29_MatchedPepOnlyOnMatch ==
    screening.matched_pep_id # 0 => screening.result = "match"

----------------------------------------------------------------------------
(* Claim on the PEP type and the organization type *)

\* Creates and writes of the fields the check is attached to and of the
\* fields pep_type is derived from; the name passes the name format check
\* under every nationality, so that a ValidationError can only be the
\* consistency check's.
TypeVals ==
    CreateVals({NameMn}, {"False"}, Nationalities, Positions, OrgTypes,
               {"active"}, {0})

TypeEdits ==
    ({"nationality"} \X Nationalities)
    \cup ({"organization_type"} \X OrgTypes)
    \cup ({"position"} \X Positions)

TypeCreate == \E id \in LifecycleIds, vals \in TypeVals : create(id, vals)

TypeWrite == \E id \in LifecycleIds, e \in TypeEdits : write(id, e[1], e[2])

TypeNext ==
    \/ TypeCreate
    \/ TypeWrite

SpecType == Init /\ [][TypeNext]_vars

\* C28: under creates and writes that give pep_type no value, a stored
\* record has pep_type international exactly when its organization_type is
\* international_org, and the consistency check rejects no create and no
\* write.
C28_InternationalIffOrg ==
    /\ \A id \in LifecycleIds :
          peps[id].exists =>
              (peps[id].pep_type = "international"
                  <=> peps[id].organization_type = "international_org")
    /\ orm_result # "ValidationError"

\* A foreign national's record at an international organization, stored by
\* a call that was accepted.
C28_Witness ==
    \E id \in Rows :
        /\ peps[id].organization_type = "international_org"
        /\ peps[id].nationality = "US"
        /\ peps[id].pep_type = "international"
        /\ peps[id].name = NameMn
        /\ orm_result = "ok"

----------------------------------------------------------------------------
(* pep.ai.search.result.line: promoting a result line to a PEP *)

NameKAN == <<"K", "A", "N">>

\* ('name', '=ilike', q): the name is q, case put aside.
eq_ilike(name, q) == lower_name(name) = lower_name(q)

\* str.strip() over the space.
RECURSIVE strip(_)
strip(s) ==
    IF s = <<>> THEN s
    ELSE IF Head(s) = " " THEN strip(Tail(s))
    ELSE IF s[Len(s)] = " " THEN strip(SubSeq(s, 1, Len(s) - 1))
    ELSE s

\* re.search(r'\((.*?)\)', s): whether there is a match.
has_parenthesised(s) ==
    \E p \in DOMAIN s, q \in DOMAIN s : p < q /\ s[p] = "(" /\ s[q] = ")"

\* match.group(1).strip() of the match above: what stands between the first
\* "(" and the first ")" after it.
transliterated_name(s) ==
    LET p == CHOOSE i \in DOMAIN s :
                 s[i] = "(" /\ \A j \in 1..(i - 1) : s[j] # "("
        q == CHOOSE i \in DOMAIN s :
                 i > p /\ s[i] = ")" /\ \A j \in (p + 1)..(i - 1) : s[j] # ")"
    IN  strip(SubSeq(s, p + 1, q - 1))

\* The mutant of similar_peps: the domain is the '=ilike' leaf alone.
similar_peps_exact(t, search_name) ==
    {id \in DOMAIN t :
        /\ t[id].exists
        /\ t[id].active
        /\ eq_ilike(t[id].name, search_name)}

\* The rows the duplicate search of action_create_pep_person finds before
\* limit=1: the '=ilike' leaf, '|' the ilike leaf on the transliteration when
\* the name holds one.  The ORM leaves archived rows out.
similar_peps(t, search_name) ==
    {id \in DOMAIN t :
        /\ t[id].exists
        /\ t[id].active
        /\ \/ eq_ilike(t[id].name, search_name)
           \/ /\ has_parenthesised(search_name)
              /\ ilike(t[id].name, transliterated_name(search_name))}

\* pep_vals: the values the promotion gives to create; country is the
\* wizard's country_id, and status takes its default.
pep_vals(line_name, country) ==
    [name |-> line_name, date_of_birth |-> "False", nationality |-> country,
     position |-> "other", organization_type |-> "False", status |-> "active",
     end_date |-> 0]

\* The ids of the PEP records of the promotion specification.
PromoteIds == {1, 2}

\* action_create_pep_person on result line `line` of a wizard for `country`:
\* a UserError when the search finds a record; else the create, and
\* is_created when the create went through.
action_create_pep_person(line, country) ==
    /\ result_lines[line].name # <<>>
    /\ LET search_name == result_lines[line].name
           existing_pep == similar_peps(peps, search_name)
       IN  IF existing_pep # {}
             THEN /\ orm_result' = "UserError"
                  /\ UNCHANGED <<peps, result_lines>>
             ELSE \E id \in PromoteIds :
                    /\ ~peps[id].exists
                    /\ \A lesser \in 1..(id - 1) : peps[lesser].exists
                    /\ LET rec == new_record(pep_vals(search_name, country),
                                             Date_today, company_country, jellyfish)
                           verdict == orm_verdict(peps, id, rec)
                       IN  /\ orm_result' = verdict
                           /\ peps' = IF verdict = "ok"
                                        THEN [peps EXCEPT ![id] = rec] ELSE peps
                           /\ result_lines' =
                                IF verdict = "ok"
                                  THEN [result_lines EXCEPT ![line].is_created = TRUE]
                                  ELSE result_lines
    /\ UNCHANGED <<today, today_md, company_country, jellyfish>>
    /\ UNCHANGED relationships
    /\ UNCHANGED screenVars
    /\ UNCHANGED sweepVars

\* The names the wizard's search returned, and the names of records made by
\* hand.
LineNames == {NameKan, NameCan, NameMn}
HandNames == {NameKAN, NameAkan}
Countries == {"US", "MN"}

PromoteVals ==
    CreateVals(HandNames, {"False"}, {"US"}, {"head_state"}, {"government"},
               {"active"}, {0})

PromoteInit ==
    /\ peps = [id \in PepIds |-> NoPep]
    /\ today = FirstYear
    /\ today_md = <<1, 1>>
    /\ company_country = "MN"
    /\ jellyfish = TRUE
    /\ orm_result = "ok"
    /\ ScreenIdle
    /\ SweepIdle
    /\ relationships = [id \in RelationIds |-> NoRelation]
    /\ result_lines \in [LineIds -> [name : LineNames, is_created : {FALSE}]]

PromoteLine ==
    \E line \in LineIds, country \in Countries : action_create_pep_person(line, country)

PromoteCreate == \E id \in PromoteIds, vals \in PromoteVals : create(id, vals)

PromoteArchive == \E id \in PromoteIds, value \in BOOLEAN : write(id, "active", value)

PromoteNext ==
    \/ PromoteLine
    \/ PromoteCreate
    \/ PromoteArchive

SpecPromote == PromoteInit /\ [][PromoteNext]_vars

----------------------------------------------------------------------------
(* Claim on the promotion of result lines *)

\* A record's name is the line's name, case put aside, or contains the
\* transliteration the line's name holds in parentheses.
Similar(name, line_name) ==
    \/ lower_name(name) = lower_name(line_name)
    \/ /\ has_parenthesised(line_name)
       /\ ilike(name, transliterated_name(line_name))

\* The promotion of `line` created a record of the line's name.
CreatedFrom(line) ==
    \E id \in PromoteIds :
        /\ ~peps[id].exists
        /\ peps'[id].exists
        /\ peps'[id].name = result_lines[line].name

\* What a promotion does when the records rows hold one similar to the
\* line, and when is_created is set.
PromotionGuarded(rows) ==
    /\ \A line \in LineIds, country \in Countries :
          (/\ action_create_pep_person(line, country)
           /\ \E id \in rows : Similar(peps[id].name, result_lines[line].name))
              => /\ orm_result' = "UserError"
                 /\ peps' = peps
                 /\ result_lines' = result_lines
    /\ \A line \in LineIds :
          result_lines'[line].is_created # result_lines[line].is_created
              => (result_lines'[line].is_created /\ CreatedFrom(line))

\* C30 as stated: a promotion fails, creates nothing and leaves is_created
\* false when a record similar to the line exists, archived or not;
\* is_created becomes true only in a promotion that created a record.
C30_SimilarBlocksPromotion ==
    [][PromotionGuarded({id \in PromoteIds : peps[id].exists})]_vars

\* C30, amended: the same when a record similar to the line exists and is
\* not archived.
C30_ActiveSimilarBlocksPromotion ==
    [][PromotionGuarded({id \in PromoteIds : peps[id].exists /\ peps[id].active})]_vars

\* One line was promoted to a record, and the promotion of the other line,
\* whose transliteration that record's name contains, was refused.
C30_Witness ==
    /\ orm_result = "UserError"
    /\ \E line \in LineIds, other \in LineIds :
          /\ result_lines[line].is_created
          /\ ~result_lines[other].is_created
          /\ result_lines[other].name = NameMn
          /\ \E id \in PromoteIds :
                /\ peps[id].exists
                /\ peps[id].active
                /\ peps[id].name = result_lines[line].name
                /\ peps[id].name # NameMn
                /\ Similar(peps[id].name, NameMn)

====
